---- MODULE Spec2Model ----
(***************************************************************************)
(* A model of cpapi.py, the ClearPass API command-line client.             *)
(*                                                                         *)
(* Text (option names, parameter tokens, method tokens, messages) is a     *)
(* sequence of one-character strings, so that the regular expression, the  *)
(* case conversion, the name rewriting and the message building are        *)
(* computed character by character.  Option and environment VALUES are     *)
(* only ever tested for presence and emptiness or compared as a whole, and *)
(* are plain strings.  Python's None is the empty set and a present value  *)
(* v is {v}.  A dict is a function whose DOMAIN is its key set.            *)
(***************************************************************************)
EXTENDS Naturals, Sequences, FiniteSets

VARIABLES
    args,         \* the docopt result: options, METHOD, URL, PARAMS
    environ,      \* os.environ: a function from the names that are set
    pc,           \* the position of main
    client,       \* the api.Client configuration (<<>> before construction)
    query,        \* the query dict returned by parseParams
    body,         \* the body dict returned by parseParams
    method,       \* the value returned by validateMethod
    authz,        \* the authz argument handed to client.invoke
    strategy,     \* the authorization strategy the dispatcher selected
    http,         \* the HTTP exchanges performed, in order
    result,       \* the value returned by client.invoke
    stdout,       \* the writes to sys.stdout, in order
    stderr,       \* the writes to sys.stderr, in order
    exit_status,  \* main's local exit_status
    exc           \* the ConfigurationException raised: None or {message}

vars == <<args, environ, pc, client, query, body, method, authz, strategy,
          http, result, stdout, stderr, exit_status, exc>>

---------------------------------------------------------------------------
(* Python values *)

None == {}
Some(v) == {v}
The(opt) == CHOOSE v \in opt : TRUE

\* dict.get(key, default)
Get(d, key, default) == IF key \in DOMAIN d THEN d[key] ELSE default

\* d[key] = value
Put(d, key, value) ==
    [k \in (DOMAIN d) \cup {key} |-> IF k = key THEN value ELSE d[k]]

EmptyDict == <<>>

\* str.replace(old, new) for one-character old and new
Replace(s, old, new) == [i \in 1..Len(s) |-> IF s[i] = old THEN new ELSE s[i]]

---------------------------------------------------------------------------
(* Option names, as main passes them to argStr and argBool *)

N_host == <<"h", "o", "s", "t">>
N_insecure == <<"i", "n", "s", "e", "c", "u", "r", "e">>
N_verbose == <<"v", "e", "r", "b", "o", "s", "e">>
N_debug == <<"d", "e", "b", "u", "g">>
N_access_token == <<"a", "c", "c", "e", "s", "s", "_", "t", "o", "k", "e", "n">>
N_client_id == <<"c", "l", "i", "e", "n", "t", "_", "i", "d">>
N_client_secret == <<"c", "l", "i", "e", "n", "t", "_", "s", "e", "c", "r", "e", "t">>
N_username == <<"u", "s", "e", "r", "n", "a", "m", "e">>
N_password == <<"p", "a", "s", "s", "w", "o", "r", "d">>

\* The docopt keys of the options of the usage text
F_host == <<"-", "-", "h", "o", "s", "t">>
F_insecure == <<"-", "-", "i", "n", "s", "e", "c", "u", "r", "e">>
F_verbose == <<"-", "-", "v", "e", "r", "b", "o", "s", "e">>
F_debug == <<"-", "-", "d", "e", "b", "u", "g">>
F_access_token == <<"-", "-", "a", "c", "c", "e", "s", "s", "-", "t", "o", "k", "e", "n">>
F_client_id == <<"-", "-", "c", "l", "i", "e", "n", "t", "-", "i", "d">>
F_client_secret == <<"-", "-", "c", "l", "i", "e", "n", "t", "-", "s", "e", "c", "r", "e", "t">>
F_username == <<"-", "-", "u", "s", "e", "r", "n", "a", "m", "e">>
F_password == <<"-", "-", "p", "a", "s", "s", "w", "o", "r", "d">>
F_unauthorized == <<"-", "-", "u", "n", "a", "u", "t", "h", "o", "r", "i", "z", "e", "d">>

StrFlags == {F_host, F_access_token, F_client_id, F_client_secret,
             F_username, F_password}
BoolFlags == {F_insecure, F_verbose, F_debug, F_unauthorized}

---------------------------------------------------------------------------
(* Argument resolution *)

\* '--' + name.replace('_', '-')
FlagOf(name) == <<"-", "-">> \o Replace(name, "_", "-")

\* The values os.getenv(name) is tested against in argBool
EnvTrue == {"1", "true", "on", "yes"}

\* argBool(name): the flag, else whether the environment value is in EnvTrue
argBoolEnvFirst(a, env, name) ==
    IF name \in DOMAIN env THEN env[name] \in EnvTrue
    ELSE Get(a.options, FlagOf(name), FALSE)
argBool(a, env, name) ==
    LET value == Get(a.options, FlagOf(name), FALSE)
    IN  IF ~value
        THEN name \in DOMAIN env /\ env[name] \in EnvTrue
        ELSE value

\* argStr(name, default=''): the flag unless it is None, else the environment
argStrTruthy(a, env, name) ==
    LET value == Get(a.options, FlagOf(name), None)
    IN  IF value = None \/ value = Some("")
        THEN Get(env, name, "")
        ELSE The(value)
argStr(a, env, name) ==
    LET value == Get(a.options, FlagOf(name), None)
    IN  IF value = None
        THEN Get(env, name, "")
        ELSE The(value)

\* api.Client(host=..., insecure=..., ...), as main builds it
NewClient(a, env) ==
    [host          |-> argStr(a, env, N_host),
     insecure      |-> argBool(a, env, N_insecure),
     verbose       |-> argBool(a, env, N_verbose),
     debug         |-> argBool(a, env, N_debug),
     access_token  |-> argStr(a, env, N_access_token),
     client_id     |-> argStr(a, env, N_client_id),
     client_secret |-> argStr(a, env, N_client_secret),
     username      |-> argStr(a, env, N_username),
     password      |-> argStr(a, env, N_password)]

---------------------------------------------------------------------------
(* Characters *)

LowerLetters == <<"a", "b", "c", "d", "e", "f", "g", "h", "i", "j", "k", "l", "m",
                  "n", "o", "p", "q", "r", "s", "t", "u", "v", "w", "x", "y", "z">>
UpperLetters == <<"A", "B", "C", "D", "E", "F", "G", "H", "I", "J", "K", "L", "M",
                  "N", "O", "P", "Q", "R", "S", "T", "U", "V", "W", "X", "Y", "Z">>
Digits == <<"0", "1", "2", "3", "4", "5", "6", "7", "8", "9">>

Range(f) == {f[i] : i \in DOMAIN f}

\* \w of the re module, on the characters of the model
IsWord(c) == c \in Range(LowerLetters) \cup Range(UpperLetters) \cup Range(Digits) \cup {"_"}

\* str.upper(), character by character
UpperChar(c) ==
    IF \E i \in DOMAIN LowerLetters : LowerLetters[i] = c
    THEN UpperLetters[CHOOSE i \in DOMAIN LowerLetters : LowerLetters[i] = c]
    ELSE c
Upper(s) == [i \in 1..Len(s) |-> UpperChar(s[i])]

Min(S) == CHOOSE x \in S : \A y \in S : x <= y
Max(S) == CHOOSE x \in S : \A y \in S : x >= y

\* sep.join(list)
RECURSIVE Join(_, _)
Join(sep, list) ==
    IF list = <<>> THEN <<>>
    ELSE IF Len(list) = 1 THEN Head(list)
    ELSE Head(list) \o sep \o Join(sep, Tail(list))

---------------------------------------------------------------------------
(* validateMethod *)

M_GET == <<"G", "E", "T">>
M_POST == <<"P", "O", "S", "T">>
M_PATCH == <<"P", "A", "T", "C", "H">>
M_PUT == <<"P", "U", "T">>
M_DELETE == <<"D", "E", "L", "E", "T", "E">>
Methods == {M_GET, M_POST, M_PATCH, M_PUT, M_DELETE}

\* 'Invalid HTTP method: '
InvalidMethod == <<"I", "n", "v", "a", "l", "i", "d", " ", "H", "T", "T", "P", " ",
                   "m", "e", "t", "h", "o", "d", ":", " ">>

Raise(message) == [raised |-> TRUE, message |-> message]
Return(value) == [raised |-> FALSE, value |-> value]

validateMethodAsGiven(m) ==
    IF Upper(m) \notin Methods
    THEN Raise(InvalidMethod \o m)
    ELSE Return(m)
validateMethod(m) ==
    IF Upper(m) \notin Methods
    THEN Raise(InvalidMethod \o m)
    ELSE Return(Upper(m))

---------------------------------------------------------------------------
(* _matchParams: a name of one or more word characters, the operator      *)
(* '==' or '=', then any value up to the end of the token (re.DOTALL),     *)
(* matched the way a backtracking matcher matches it.                      *)

EqEq == <<"=", "=">>
Eq == <<"=">>

\* (==|=): the alternatives in the order they are tried
OpAlternativesSingleFirst == <<Eq, EqEq>>
OpAlternatives == <<EqEq, Eq>>

\* re.DOTALL: '.' also matches a line break
DotAll == TRUE

\* The number of leading word characters of s: what a greedy \w+ takes first
WordRun(s) ==
    CHOOSE k \in 0..Len(s) :
        /\ \A i \in 1..k : IsWord(s[i])
        /\ k = Len(s) \/ ~IsWord(s[k + 1])

StartsWithAt(s, pos, lit) ==
    /\ pos + Len(lit) - 1 <= Len(s)
    /\ SubSeq(s, pos, pos + Len(lit) - 1) = lit

\* The value group and '$' on the rest of the token: the group is greedy and
\* '$' matches at the end of the string or just before a final line break
TailMatch(rest) ==
    LET breaks == {i \in 1..Len(rest) : rest[i] = "\n"}
    IN  IF DotAll \/ breaks = {} THEN Some(rest)
        ELSE IF breaks = {Len(rest)} THEN Some(SubSeq(rest, 1, Len(rest) - 1))
        ELSE None

\* The match with a name of k characters and the operator alternative op
AltTry(s, k, op) ==
    IF StartsWithAt(s, k + 1, op)
    THEN LET t == TailMatch(SubSeq(s, k + Len(op) + 1, Len(s)))
         IN  IF t = None THEN None
             ELSE Some([name |-> SubSeq(s, 1, k), op |-> op, value |-> The(t)])
    ELSE None

\* The match with a name of k characters: the first alternative that matches
Attempt(s, k) ==
    LET hits == {i \in DOMAIN OpAlternatives : AltTry(s, k, OpAlternatives[i]) # None}
    IN  IF hits = {} THEN None ELSE AltTry(s, k, OpAlternatives[Min(hits)])

\* _matchParams.match(param): the longest name that leads to a match
matchParams(param) ==
    LET ks == {k \in 1..WordRun(param) : Attempt(param, k) # None}
    IN  IF ks = {} THEN None ELSE Attempt(param, Max(ks))

---------------------------------------------------------------------------
(* parseParams *)

\* 'Invalid parameter(s): ' and ', '
InvalidParams == <<"I", "n", "v", "a", "l", "i", "d", " ", "p", "a", "r", "a", "m",
                   "e", "t", "e", "r", "(", "s", ")", ":", " ">>
CommaSpace == <<",", " ">>

\* The body of the for loop, on the three locals
ParamStepFailFast(acc, param) ==
    LET match == matchParams(param)
    IN  IF acc.bad_params # <<>> THEN acc
        ELSE IF match = None
        THEN [acc EXCEPT !.bad_params = Append(@, param)]
        ELSE IF The(match).op = EqEq
        THEN [acc EXCEPT !.query = Put(@, The(match).name, The(match).value)]
        ELSE [acc EXCEPT !.body = Put(@, The(match).name, The(match).value)]
ParamStepKeepFirst(acc, param) ==
    LET match == matchParams(param)
    IN  IF match = None
        THEN [acc EXCEPT !.bad_params = Append(@, param)]
        ELSE IF The(match).op = EqEq
        THEN [acc EXCEPT !.query = IF The(match).name \in DOMAIN @ THEN @
                                   ELSE Put(@, The(match).name, The(match).value)]
        ELSE [acc EXCEPT !.body = IF The(match).name \in DOMAIN @ THEN @
                                  ELSE Put(@, The(match).name, The(match).value)]
ParamStep(acc, param) ==
    LET match == matchParams(param)
    IN  IF match = None
        THEN [acc EXCEPT !.bad_params = Append(@, param)]
        ELSE IF The(match).op = EqEq
        THEN [acc EXCEPT !.query = Put(@, The(match).name, The(match).value)]
        ELSE [acc EXCEPT !.body = Put(@, The(match).name, The(match).value)]

RECURSIVE parseLoop(_, _)
parseLoop(params, acc) ==
    IF params = <<>> THEN acc
    ELSE parseLoop(Tail(params), ParamStep(acc, Head(params)))

parseParams(params) ==
    LET acc == parseLoop(params, [query |-> EmptyDict, body |-> EmptyDict,
                                  bad_params |-> <<>>])
    IN  IF acc.bad_params # <<>>
        THEN Raise(InvalidParams \o Join(CommaSpace, acc.bad_params))
        ELSE Return(<<acc.query, acc.body>>)

---------------------------------------------------------------------------
(* The dispatcher, api.Client.invoke: the authorization state machine      *)

\* The message of the insufficient-credentials configuration error
InsufficientCredentials == <<"i", "n", "s", "u", "f", "f", "i", "c", "i", "e", "n", "t",
                             " ", "c", "r", "e", "d", "e", "n", "t", "i", "a", "l", "s">>

\* The strategy for a configuration c when authorization is (az) or is not asked for
SelectStrategy(c, az) ==
    IF c.access_token # "" THEN "BearerToken"
    ELSE IF c.client_id # "" /\ c.client_secret # "" /\ c.username = ""
    THEN "ClientCredentials"
    ELSE IF c.client_id # "" /\ c.username # "" /\ c.password # "" /\ c.client_secret = ""
    THEN "PasswordPublic"
    ELSE IF c.client_id # "" /\ c.client_secret # "" /\ c.username # "" /\ c.password # ""
    THEN "PasswordConfidential"
    ELSE IF ~az THEN "NoAuth"
    ELSE "ConfigError"

\* The strategies that obtain a token with an OAuth2 exchange
Grants == {"ClientCredentials", "PasswordPublic", "PasswordConfidential"}

---------------------------------------------------------------------------
(* main *)

\* The statements of main's try block, in order, and the return after it
MainOrderValidateFirst == <<"construct", "validate", "parse", "invoke", "dump", "return">>
MainOrder == <<"construct", "parse", "validate", "invoke", "dump", "return">>

After(step) == MainOrder[1 + CHOOSE i \in DOMAIN MainOrder : MainOrder[i] = step]

\* The last argument of client.invoke: not self.args['--unauthorized']
AuthzArgAsGiven(a) == a.options[F_unauthorized]
AuthzArg(a) == ~a.options[F_unauthorized]

\* 'ERROR: Configuration error: '
ErrorPrefix == <<"E", "R", "R", "O", "R", ":", " ", "C", "o", "n", "f", "i", "g", "u",
                 "r", "a", "t", "i", "o", "n", " ", "e", "r", "r", "o", "r", ":", " ">>

\* client = api.Client(...)
Construct ==
    /\ pc = "construct"
    /\ client' = NewClient(args, environ)
    /\ pc' = After("construct")
    /\ UNCHANGED <<args, environ, query, body, method, authz, strategy, http,
                   result, stdout, stderr, exit_status, exc>>

\* query, body = self.parseParams(self.args['PARAMS'])
ParseParams ==
    /\ pc = "parse"
    /\ LET r == parseParams(args.PARAMS)
       IN  IF r.raised
           THEN /\ exc' = Some(r.message)
                /\ pc' = "except"
                /\ UNCHANGED <<query, body>>
           ELSE /\ query' = r.value[1]
                /\ body' = r.value[2]
                /\ pc' = After("parse")
                /\ UNCHANGED exc
    /\ UNCHANGED <<args, environ, client, method, authz, strategy, http,
                   result, stdout, stderr, exit_status>>

\* self.validateMethod(self.args['METHOD']), the first argument of client.invoke
ValidateMethod ==
    /\ pc = "validate"
    /\ LET r == validateMethod(args.METHOD)
       IN  IF r.raised
           THEN /\ exc' = Some(r.message)
                /\ pc' = "except"
                /\ UNCHANGED method
           ELSE /\ method' = r.value
                /\ pc' = After("validate")
                /\ UNCHANGED exc
    /\ UNCHANGED <<args, environ, client, query, body, authz, strategy, http,
                   result, stdout, stderr, exit_status>>

\* client.invoke(method, URL, query, body, authz) up to the choice of a strategy
Authorize ==
    /\ pc = "invoke"
    /\ authz' = AuthzArg(args)
    /\ strategy' = SelectStrategy(client, authz')
    /\ IF strategy' = "ConfigError"
       THEN exc' = Some(InsufficientCredentials) /\ pc' = "except"
       ELSE /\ pc' = IF strategy' \in Grants THEN "token" ELSE "request"
            /\ UNCHANGED exc
    /\ UNCHANGED <<args, environ, client, query, body, method, http,
                   result, stdout, stderr, exit_status>>

\* The OAuth2 exchange that obtains the token; a transport failure is not caught
TokenExchange ==
    /\ pc = "token"
    /\ http' = Append(http, [kind |-> "token", grant |-> strategy])
    /\ \E ok \in BOOLEAN : pc' = IF ok THEN "request" ELSE "uncaught"
    /\ UNCHANGED <<args, environ, client, query, body, method, authz, strategy,
                   result, stdout, stderr, exit_status, exc>>

\* The requested call; a transport failure is not caught
Request ==
    /\ pc = "request"
    /\ http' = Append(http, [kind |-> "api", method |-> method, url |-> args.URL,
                             query |-> query, body |-> body,
                             authorized |-> strategy # "NoAuth"])
    /\ \E ok \in BOOLEAN :
          IF ok THEN result' = Some("json") /\ pc' = After("invoke")
                ELSE UNCHANGED result /\ pc' = "uncaught"
    /\ UNCHANGED <<args, environ, client, query, body, method, authz, strategy,
                   stdout, stderr, exit_status, exc>>

\* json.dump(result, sys.stdout, ...); print("\n")
Dump ==
    /\ pc = "dump"
    /\ stdout' = stdout \o <<The(result), "\n\n">>
    /\ pc' = After("dump")
    /\ UNCHANGED <<args, environ, client, query, body, method, authz, strategy,
                   http, result, stderr, exit_status, exc>>

\* except api.ConfigurationException as e
ExceptKeepStatus ==
    /\ pc = "except"
    /\ stderr' = Append(stderr, ErrorPrefix \o The(exc) \o <<"\n">>)
    /\ pc' = "return"
    /\ UNCHANGED <<args, environ, client, query, body, method, authz, strategy,
                   http, result, stdout, exit_status, exc>>
Except ==
    /\ pc = "except"
    /\ stderr' = Append(stderr, ErrorPrefix \o The(exc) \o <<"\n">>)
    /\ exit_status' = 3
    /\ pc' = "return"
    /\ UNCHANGED <<args, environ, client, query, body, method, authz, strategy,
                   http, result, stdout, exc>>

Next ==
    \/ Construct
    \/ ParseParams
    \/ ValidateMethod
    \/ Authorize
    \/ TokenExchange
    \/ Request
    \/ Dump
    \/ Except

---------------------------------------------------------------------------
(* Inputs *)

MaxParams == 3      \* the longest PARAMS list built from ListTokens
MaxTokLen == 4      \* the longest token of a one-token PARAMS list
MaxMethodLen == 3   \* the longest METHOD built from MethodChars

AllFlags == StrFlags \cup BoolFlags
StrOpts == {<<N_host, F_host>>, <<N_access_token, F_access_token>>,
            <<N_client_id, F_client_id>>, <<N_client_secret, F_client_secret>>,
            <<N_username, F_username>>, <<N_password, F_password>>}
BoolOpts == {<<N_insecure, F_insecure>>, <<N_verbose, F_verbose>>, <<N_debug, F_debug>>}

\* docopt's result with no option given
DefaultOptions == [f \in AllFlags |-> IF f \in BoolFlags THEN FALSE ELSE None]
U_guest == <<"/", "g", "u", "e", "s", "t">>
DefaultArgs == [options |-> DefaultOptions, METHOD |-> <<"g", "e", "t">>,
                URL |-> U_guest, PARAMS |-> <<>>]

\* All sequences over S of length at most n
SeqsUpTo(S, n) == UNION {[1..k -> S] : k \in 0..n}

\* main at position at, for the command line a and the environment env
Started(a, env, at) ==
    /\ args = a
    /\ environ = env
    /\ pc = at
    /\ client = IF at = "construct" THEN <<>> ELSE NewClient(a, env)
    /\ query = <<>>
    /\ body = <<>>
    /\ method = <<>>
    /\ authz = TRUE
    /\ strategy = "none"
    /\ http = <<>>
    /\ result = None
    /\ stdout = <<>>
    /\ stderr = <<>>
    /\ exit_status = 0
    /\ exc = None

(* Whole runs: every combination of the five credential fields, each unset, *)
(* given by its flag or given by the environment.                           *)
CredOpts == StrOpts \ {<<N_host, F_host>>}
MainMethods == {<<"g", "e", "t">>, <<"P", "o", "s", "t">>, <<"F", "E", "T", "C", "H">>}
MainParams == {<<>>,
               << <<"a", "=", "1">>, <<"b", "=", "=", "2">> >>,
               << <<"a">> >>,
               << <<"a", "=", "=", "1">>, <<"-", "\n">>, <<"b", "=">>, <<"=">> >>}

Init ==
    \E src \in [CredOpts -> {"unset", "flag", "env"}], z \in BOOLEAN,
       m \in MainMethods, ps \in MainParams :
        Started([options |-> [f \in AllFlags |->
                                IF f = F_unauthorized THEN z
                                ELSE IF f \in BoolFlags THEN FALSE
                                ELSE IF f = F_host THEN Some("h")
                                ELSE IF \E o \in CredOpts : o[2] = f /\ src[o] = "flag"
                                THEN Some("f") ELSE None],
                 METHOD |-> m, URL |-> U_guest, PARAMS |-> ps],
                [n \in {o[1] : o \in {o \in CredOpts : src[o] = "env"}} |-> "e"],
                "construct")

Spec == Init /\ [][Next]_vars

(* parseParams alone *)
TokChars == {"a", "=", "\n", "-"}
Names == {<<"a">>, <<"b">>}
Values == {<<>>, <<"=">>, <<"\n">>}
BadTokens == {<<>>, <<"a">>, <<"-", "a", "=", "1">>, <<",", " ">>}
ListTokens == {n \o op \o v : n \in Names, op \in {Eq, EqEq}, v \in Values} \cup BadTokens
ParamLists == SeqsUpTo(ListTokens, MaxParams) \cup {<<t>> : t \in SeqsUpTo(TokChars, MaxTokLen)}

InitParams == \E ps \in ParamLists : Started([DefaultArgs EXCEPT !.PARAMS = ps], <<>>, "parse")
SpecParams == InitParams /\ [][ParseParams]_vars

(* validateMethod alone *)
LowerChar(c) ==
    IF \E i \in DOMAIN UpperLetters : UpperLetters[i] = c
    THEN LowerLetters[CHOOSE i \in DOMAIN UpperLetters : UpperLetters[i] = c]
    ELSE c
CaseVariants(w) ==
    {[i \in 1..Len(w) |-> IF i \in S THEN LowerChar(w[i]) ELSE w[i]] : S \in SUBSET (1..Len(w))}
MethodWords == Methods \cup {<<"F", "E", "T", "C", "H">>, <<"H", "E", "A", "D">>,
                             <<"G", "E", "T", "S">>, <<"P", "O", "S", "T", " ">>}
MethodChars == {"g", "G", "e", "t", "T", " "}
MethodTokens == UNION {CaseVariants(w) : w \in MethodWords}
                    \cup SeqsUpTo(MethodChars, MaxMethodLen)

InitMethod == \E m \in MethodTokens : Started([DefaultArgs EXCEPT !.METHOD = m], <<>>, "validate")
SpecMethod == InitMethod /\ [][ValidateMethod]_vars

(* Argument resolution alone: two string options, or the boolean options *)
FlagValues == {None, Some(""), Some("f")}
EnvValues == {None, Some(""), Some("e")}
EnvBoolValues == {None, Some("1"), Some("true"), Some("on"), Some("yes"),
                  Some("no"), Some("0"), Some("YES"), Some("")}

\* The environment in which each name n of ns is set to The(e[n]) unless e[n] is None
EnvOf(ns, e) == [n \in {x \in ns : e[x] # None} |-> The(e[n])]

InitArgsStr ==
    \E o1 \in StrOpts, o2 \in StrOpts, f \in [{1, 2} -> FlagValues], e \in [{1, 2} -> EnvValues] :
        Started([DefaultArgs EXCEPT !.options =
                    [fl \in AllFlags |-> IF fl = o1[2] THEN f[1]
                                         ELSE IF fl = o2[2] THEN f[2]
                                         ELSE DefaultOptions[fl]]],
                EnvOf({o1[1], o2[1]}, [n \in {o1[1], o2[1]} |-> IF n = o1[1] THEN e[1] ELSE e[2]]),
                "construct")
InitArgsBool ==
    \E f \in [BoolOpts -> BOOLEAN], e \in [BoolOpts -> EnvBoolValues] :
        Started([DefaultArgs EXCEPT !.options =
                    [fl \in AllFlags |-> IF \E o \in BoolOpts : o[2] = fl
                                         THEN f[CHOOSE o \in BoolOpts : o[2] = fl]
                                         ELSE DefaultOptions[fl]]],
                EnvOf({o[1] : o \in BoolOpts},
                      [n \in {o[1] : o \in BoolOpts} |-> e[CHOOSE o \in BoolOpts : o[1] = n]]),
                "construct")
InitArgs == InitArgsStr \/ InitArgsBool
SpecArgs == InitArgs /\ [][Construct]_vars

---------------------------------------------------------------------------
(* What the claims speak of, stated without the operators of the model     *)

AllWord(s) == \A i \in 1..Len(s) : IsWord(s[i])

\* t is name==value: a name of word characters, then '==', then anything
QuerySplits(t) == {k \in 1..Len(t) : /\ k + 2 <= Len(t)
                                     /\ AllWord(SubSeq(t, 1, k))
                                     /\ t[k + 1] = "=" /\ t[k + 2] = "="}
\* t is name=value: a name of word characters, then a single '='
BodySplits(t) == {k \in 1..Len(t) : /\ k + 1 <= Len(t)
                                    /\ AllWord(SubSeq(t, 1, k))
                                    /\ t[k + 1] = "="
                                    /\ (k + 2 <= Len(t) => t[k + 2] # "=")}
IsQueryTok(t) == QuerySplits(t) # {}
IsBodyTok(t) == BodySplits(t) # {}
ValidTok(t) == IsQueryTok(t) \/ IsBodyTok(t)
InvalidTok(t) == ~ValidTok(t)

QueryName(t) == SubSeq(t, 1, CHOOSE k \in QuerySplits(t) : TRUE)
QueryValue(t) == SubSeq(t, 3 + CHOOSE k \in QuerySplits(t) : TRUE, Len(t))
BodyName(t) == SubSeq(t, 1, CHOOSE k \in BodySplits(t) : TRUE)
BodyValue(t) == SubSeq(t, 2 + CHOOSE k \in BodySplits(t) : TRUE, Len(t))

\* The positions of PARAMS that hold a query (a body) token named n
QueryAt(n) == {i \in DOMAIN args.PARAMS :
                 IsQueryTok(args.PARAMS[i]) /\ QueryName(args.PARAMS[i]) = n}
BodyAt(n) == {i \in DOMAIN args.PARAMS :
                IsBodyTok(args.PARAMS[i]) /\ BodyName(args.PARAMS[i]) = n}

AllValid == \A i \in DOMAIN args.PARAMS : ValidTok(args.PARAMS[i])

\* The invalid tokens in input order, joined by ', ' (built from the right)
RECURSIVE JoinedFromRight(_)
JoinedFromRight(list) ==
    IF list = <<>> THEN <<>>
    ELSE IF Len(list) = 1 THEN list[1]
    ELSE JoinedFromRight(SubSeq(list, 1, Len(list) - 1)) \o <<",", " ">> \o list[Len(list)]
BadParamsMessage ==
    InvalidParams \o JoinedFromRight(SelectSeq(args.PARAMS, InvalidTok))

\* c is C or the lower-case letter of C
SameLetter(c, C) ==
    c = C \/ \E i \in DOMAIN UpperLetters : UpperLetters[i] = C /\ LowerLetters[i] = c
CaseEq(m, W) == Len(m) = Len(W) /\ \A i \in 1..Len(m) : SameLetter(m[i], W[i])
MethodHits == {W \in {M_GET, M_POST, M_PATCH, M_PUT, M_DELETE} : CaseEq(args.METHOD, W)}

\* The configuration field of an option name
Field(c, n) ==
    CASE n = N_host -> c.host
      [] n = N_access_token -> c.access_token
      [] n = N_client_id -> c.client_id
      [] n = N_client_secret -> c.client_secret
      [] n = N_username -> c.username
      [] n = N_password -> c.password
      [] n = N_insecure -> c.insecure
      [] n = N_verbose -> c.verbose
      [] n = N_debug -> c.debug

---------------------------------------------------------------------------
(* C1: when every token of PARAMS is name==value or name=value, parseParams *)
(* returns; the keys of query are exactly the names of the name==value      *)
(* tokens and each query value is the value of such a token of that name;   *)
(* the keys of body are exactly the names of the name=value tokens and each *)
(* body value is the value of such a token; so a name==value token puts     *)
(* nothing in body, a name=value token nothing in query, and no body value  *)
(* starts with '='.  Values may be empty or hold '=' or line breaks.        *)
C1_Classified ==
    (pc # "parse" /\ AllValid) =>
        /\ pc = "validate" /\ exc = None
        /\ DOMAIN query = {QueryName(args.PARAMS[i]) :
                             i \in {j \in DOMAIN args.PARAMS : IsQueryTok(args.PARAMS[j])}}
        /\ DOMAIN body = {BodyName(args.PARAMS[i]) :
                            i \in {j \in DOMAIN args.PARAMS : IsBodyTok(args.PARAMS[j])}}
        /\ \A n \in DOMAIN query :
              \E i \in QueryAt(n) : query[n] = QueryValue(args.PARAMS[i])
        /\ \A n \in DOMAIN body :
              /\ \E i \in BodyAt(n) : body[n] = BodyValue(args.PARAMS[i])
              /\ body[n] = <<>> \/ body[n][1] # "="

\* A query value that is '=' itself, an empty one, and a body value that is a line break
C1_Witness ==
    /\ pc = "validate"
    /\ \E n \in DOMAIN query : query[n] = <<"=">>
    /\ \E n \in DOMAIN query : query[n] = <<>>
    /\ \E n \in DOMAIN body : body[n] = <<"\n">>

(* C2: when PARAMS holds at least one token that is neither name==value nor *)
(* name=value, parseParams raises the configuration error whose message is  *)
(* 'Invalid parameter(s): ' followed by all the invalid tokens, in input    *)
(* order, joined by ', ' (also those after the first), and no query or body *)
(* is returned.                                                             *)
C2_AllBadReported ==
    (pc # "parse" /\ ~AllValid) =>
        /\ pc = "except"
        /\ exc = Some(BadParamsMessage)
        /\ query = <<>> /\ body = <<>>

\* invalid, valid, invalid
C2_Witness ==
    /\ pc = "except"
    /\ Len(args.PARAMS) = 3
    /\ InvalidTok(args.PARAMS[1]) /\ ValidTok(args.PARAMS[2]) /\ InvalidTok(args.PARAMS[3])
    /\ args.PARAMS[1] # args.PARAMS[3]

(* C9: in the result of parseParams each name has one entry per mapping,    *)
(* holding the value of the LAST token of that name and operator; a token   *)
(* of the same name with the other operator leaves it alone, so a name may  *)
(* be a key of both query and body.                                         *)
C9_LastWins ==
    (pc = "validate") =>
        /\ \A n \in DOMAIN query :
              QueryAt(n) # {} /\ query[n] = QueryValue(args.PARAMS[Max(QueryAt(n))])
        /\ \A n \in DOMAIN body :
              BodyAt(n) # {} /\ body[n] = BodyValue(args.PARAMS[Max(BodyAt(n))])
        /\ \A i \in DOMAIN args.PARAMS :
              /\ IsQueryTok(args.PARAMS[i]) => QueryName(args.PARAMS[i]) \in DOMAIN query
              /\ IsBodyTok(args.PARAMS[i]) => BodyName(args.PARAMS[i]) \in DOMAIN body

\* name==v1, name=w, name==v2 with v1 # v2: query holds v2 and body holds w
C9_Witness ==
    /\ pc = "validate"
    /\ Len(args.PARAMS) = 3
    /\ IsQueryTok(args.PARAMS[1]) /\ IsBodyTok(args.PARAMS[2]) /\ IsQueryTok(args.PARAMS[3])
    /\ QueryName(args.PARAMS[1]) = QueryName(args.PARAMS[3])
    /\ QueryName(args.PARAMS[1]) = BodyName(args.PARAMS[2])
    /\ QueryValue(args.PARAMS[1]) # QueryValue(args.PARAMS[3])
    /\ query[QueryName(args.PARAMS[1])] = QueryValue(args.PARAMS[3])
    /\ QueryName(args.PARAMS[1]) \in DOMAIN body

(* C3: validateMethod returns the upper-case method when METHOD equals one  *)
(* of GET, POST, PATCH, PUT, DELETE up to letter case, and otherwise raises *)
(* the configuration error 'Invalid HTTP method: ' followed by METHOD as    *)
(* given, returning nothing.                                                *)
C3_MethodValidated ==
    (pc # "validate") =>
        IF MethodHits # {}
        THEN pc = "invoke" /\ method \in MethodHits /\ exc = None
        ELSE pc = "except" /\ exc = Some(InvalidMethod \o args.METHOD) /\ method = <<>>

\* 'pAtCh' is accepted and returned as 'PATCH'
C3_Witness ==
    /\ pc = "invoke"
    /\ args.METHOD = <<"p", "A", "t", "C", "h">>
    /\ method = <<"P", "A", "T", "C", "H">>

(* C4 as stated: a string option resolves to the flag value when the flag   *)
(* is given and non-empty, otherwise to the environment variable of the     *)
(* option's name, otherwise to the empty string.                            *)
C4_FlagIfTruthy ==
    (pc # "construct") =>
        \A o \in StrOpts :
            Field(client, o[1]) =
                IF args.options[o[2]] # None /\ args.options[o[2]] # Some("")
                THEN The(args.options[o[2]])
                ELSE IF o[1] \in DOMAIN environ THEN environ[o[1]]
                ELSE ""

(* C4, amended: a string option resolves to the flag value whenever the     *)
(* flag is given, the empty string included; only when the flag is not      *)
(* given does it resolve to the environment variable of the option's name,  *)
(* and to the empty string when that is unset too.  With both set the flag  *)
(* wins; with the flag absent the environment value is used.                *)
C4_FlagIfGiven ==
    (pc # "construct") =>
        \A o \in StrOpts :
            Field(client, o[1]) =
                IF args.options[o[2]] # None
                THEN The(args.options[o[2]])
                ELSE IF o[1] \in DOMAIN environ THEN environ[o[1]]
                ELSE ""

\* --access-token '' with access_token=e in the environment resolves to '',
\* while client_id, given only by the environment, resolves to e
C4_Witness ==
    /\ pc # "construct"
    /\ args.options[F_access_token] = Some("")
    /\ N_access_token \in DOMAIN environ /\ environ[N_access_token] = "e"
    /\ client.access_token = ""
    /\ args.options[F_client_id] = None
    /\ N_client_id \in DOMAIN environ /\ environ[N_client_id] = "e"
    /\ client.client_id = "e"

(* C5: a boolean option resolves to true when its flag is given, whatever   *)
(* the environment; without the flag it is true exactly when the            *)
(* environment variable is set to '1', 'true', 'on' or 'yes'.               *)
C5_BoolResolved ==
    (pc # "construct") =>
        \A o \in BoolOpts :
            Field(client, o[1]) =
                IF args.options[o[2]] THEN TRUE
                ELSE /\ o[1] \in DOMAIN environ
                     /\ environ[o[1]] \in {"1", "true", "on", "yes"}

\* --insecure with insecure=no is true, verbose=YES is false, debug=on is true
C5_Witness ==
    /\ pc # "construct"
    /\ args.options[F_insecure]
    /\ N_insecure \in DOMAIN environ /\ environ[N_insecure] = "no"
    /\ client.insecure
    /\ ~args.options[F_verbose]
    /\ N_verbose \in DOMAIN environ /\ environ[N_verbose] = "YES"
    /\ ~client.verbose
    /\ ~args.options[F_debug]
    /\ N_debug \in DOMAIN environ /\ environ[N_debug] = "on"
    /\ client.debug

---------------------------------------------------------------------------
(* Whole runs *)

Finished == pc \in {"return", "uncaught"}
TokenExchanges == {i \in DOMAIN http : http[i].kind = "token"}
ApiRequests == {i \in DOMAIN http : http[i].kind = "api"}

\* The populated fields of the configuration
HasToken == client.access_token # ""
HasId == client.client_id # ""
HasSecret == client.client_secret # ""
HasUser == client.username # ""
HasPassword == client.password # ""
SkipAsked == args.options[F_unauthorized]

\* None of the four credential combinations of the precedence list applies
NoCredentialCase ==
    /\ ~HasToken
    /\ ~(HasId /\ HasSecret /\ ~HasUser)
    /\ ~(HasId /\ HasUser /\ HasPassword /\ ~HasSecret)
    /\ ~(HasId /\ HasSecret /\ HasUser /\ HasPassword)

(* C6: main returns 0 exactly when no configuration error was raised and 3  *)
(* when one was, be it by parseParams, by validateMethod or by the          *)
(* dispatcher; in the error case the only output is the one write           *)
(* 'ERROR: Configuration error: <message>' and a line break on standard     *)
(* error, and in no state of such a run is anything on standard output.     *)
C6_ExitStatus ==
    /\ exc # None => stdout = <<>>
    /\ pc = "return" =>
          /\ exit_status = 0 <=> exc = None
          /\ exit_status \in {0, 3}
          /\ (~AllValid \/ MethodHits = {} \/ (NoCredentialCase /\ ~SkipAsked))
                => exit_status = 3
          /\ exit_status = 3 =>
                /\ stderr = <<ErrorPrefix \o The(exc) \o <<"\n">>>>
                /\ stdout = <<>>
          /\ exit_status = 0 => stderr = <<>> /\ Len(stdout) = 2

\* The dispatcher's insufficient-credentials error ends the run with status 3
C6_Witness ==
    /\ pc = "return"
    /\ exit_status = 3
    /\ strategy = "ConfigError"
    /\ Len(stderr) = 1

(* C7: once the dispatcher has chosen, the outcome is the one the           *)
(* precedence list gives for the populated fields: (1) access_token: the    *)
(* bearer token, and no token exchange ever; (2) client_id, client_secret,  *)
(* no username: client_credentials; (3) client_id, username, password, no   *)
(* client_secret: password grant, public client; (4) all four: password     *)
(* grant, confidential client; (5) none of these and skipping asked for:    *)
(* unauthorized; (6) otherwise the insufficient-credentials configuration   *)
(* error.  Every token exchange of the run is for the one strategy chosen.  *)
C7_OneStrategy ==
    (strategy # "none") =>
        /\ HasToken => strategy = "BearerToken" /\ TokenExchanges = {}
        /\ (~HasToken /\ HasId /\ HasSecret /\ ~HasUser) => strategy = "ClientCredentials"
        /\ (~HasToken /\ HasId /\ HasUser /\ HasPassword /\ ~HasSecret)
              => strategy = "PasswordPublic"
        /\ (~HasToken /\ HasId /\ HasSecret /\ HasUser /\ HasPassword)
              => strategy = "PasswordConfidential"
        /\ (NoCredentialCase /\ SkipAsked) => strategy = "NoAuth" /\ TokenExchanges = {}
        /\ (NoCredentialCase /\ ~SkipAsked)
              => /\ strategy = "ConfigError"
                 /\ exc = Some(InsufficientCredentials)
                 /\ http = <<>>
        /\ \A i \in TokenExchanges : http[i].grant = strategy

\* client_id, username and password but no client_secret: the public client
C7_Witness ==
    /\ pc = "return"
    /\ HasId /\ HasUser /\ HasPassword /\ ~HasSecret /\ ~HasToken
    /\ strategy = "PasswordPublic"
    /\ exit_status = 0

C10_ParseThenValidateThenInvoke ==
    /\ (~AllValid \/ MethodHits = {}) => http = <<>> /\ strategy = "none"
    /\ ~AllValid => method = <<>>
    /\ (pc = "return" /\ ~AllValid) =>
          /\ exc = Some(BadParamsMessage)
          /\ stderr = <<ErrorPrefix \o BadParamsMessage \o <<"\n">>>>
    /\ (pc = "return" /\ AllValid /\ MethodHits = {}) =>
          exc = Some(InvalidMethod \o args.METHOD)

\* A malformed parameter and the method FETCH: status 3, no exchange
C10_Witness ==
    /\ pc = "return"
    /\ ~AllValid
    /\ MethodHits = {}
    /\ exit_status = 3
    /\ http = <<>>

====
